---- MODULE Spec2Model ----
(***************************************************************************)
(* Model of src/metadata.rs: the `Target` parsers (string shorthand and    *)
(* table form), `ComponentMetadata::from_package` with its path            *)
(* normalization pass, and `ComponentMetadata::target_path`.               *)
(*                                                                         *)
(* Strings are sequences of one-character strings.  Option<T> is a         *)
(* sequence of length at most one: None is << >>, Some(x) is <<x>>.        *)
(* A path is a record [abs, comps]: whether it has a root, and its normal  *)
(* components (std::path compares paths by components).                    *)
(***************************************************************************)
EXTENDS Integers, Sequences, FiniteSets, TLC

VARIABLES node, result, pkg, fs, meta, call

vars == <<node, result, pkg, fs, meta, call>>

None == << >>
Some(x) == <<x>>

(* ------------------------------ bounds --------------------------------- *)

\* longest string handed to Target::from_str
MaxLen == 7

(* ------------------------- strings and results ------------------------- *)

Chars == {"a", "1", ":", "/", "@"}

Strings == UNION {[1..k -> Chars] : k \in 0..MaxLen}

Ok(v) == [ok |-> TRUE, value |-> v]

Err(k, d) == [ok |-> FALSE, kind |-> k, detail |-> d]

\* str::split_once: the split is at the first occurrence of the delimiter
split_once_last(s, c) ==
  IF \E i \in 1..Len(s) : s[i] = c
  THEN LET i == CHOOSE i \in 1..Len(s) :
                  s[i] = c /\ \A j \in (i+1)..Len(s) : s[j] # c
       IN Some([l |-> SubSeq(s, 1, i-1), r |-> SubSeq(s, i+1, Len(s))])
  ELSE None

split_once(s, c) ==
  IF \E i \in 1..Len(s) : s[i] = c
  THEN LET i == CHOOSE i \in 1..Len(s) :
                  s[i] = c /\ \A j \in 1..(i-1) : s[j] # c
       IN Some([l |-> SubSeq(s, 1, i-1), r |-> SubSeq(s, i+1, Len(s))])
  ELSE None

\* semver::VersionReq::from_str over Chars: one or more digits
ValidVersionReq(v) == Len(v) > 0 /\ \A i \in 1..Len(v) : v[i] = "1"

\* wit_parser::validate_id over Chars: a letter, then letters and digits
validate_id(w) ==
  /\ Len(w) > 0
  /\ w[1] = "a"
  /\ \A i \in 1..Len(w) : w[i] \in {"a", "1"}

\* warg PackageName::from_str over Chars: <namespace>:<name>, both ids
ValidPackageName(n) ==
  LET c == split_once(n, ":")
  IN  c # None /\ validate_id(c[1].l) /\ validate_id(c[1].r)

(* ------------------------- paths and dependencies ---------------------- *)

Path(a, c) == [abs |-> a, comps |-> c]

\* the argument is appended even when it is absolute
JoinAppend(d, p) == Path(d.abs, d.comps \o p.comps)

\* Path::join: an absolute argument replaces the base
Join(d, p) == IF p.abs THEN p ELSE Path(d.abs, d.comps \o p.comps)

\* Path::parent: none for the root and for the empty path
parent(p) ==
  IF p.comps = << >> THEN None
  ELSE Some(Path(p.abs, SubSeq(p.comps, 1, Len(p.comps) - 1)))

DEFAULT_WIT_DIR == Path(FALSE, <<"wit">>)

RelX == Path(FALSE, <<"x">>)

AbsX == Path(TRUE, <<"x">>)

PathValues == {RelX, AbsX}

EmptyMap == [k \in {} |-> None]

DepLocal(p) == [kind |-> "Local", path |-> p]

DepPackage(r) == [kind |-> "Package", pkg |-> r]

DepKeys == {"a:a", "b:b"}

DepValues == {DepLocal(RelX), DepPackage("r")}

DepMaps == UNION {[ks -> DepValues] : ks \in SUBSET DepKeys}

(* ------------------------------- Target -------------------------------- *)

RegistryPackage(n, v, r) == [name |-> n, version |-> v, registry |-> r]

TargetPackage(n, p, w) ==
  [variant |-> "Package", name |-> n, package |-> p, world |-> w]

TargetLocal(p, w, d) ==
  [variant |-> "Local", path |-> p, world |-> w, dependencies |-> d]

\* Target::world
world(t) == t.world

\* impl Default for Target
TargetDefault == TargetLocal(None, None, EmptyMap)

\* the world name is taken without validation
from_str_unvalidated(s) ==
  LET at == split_once(s, "@") IN
  IF at = None
  THEN Err("InvalidTarget", <<"expected target format">>)
  ELSE
    LET name == at[1].l
        version == at[1].r
    IN
    IF ~ValidVersionReq(version)
    THEN Err("InvalidTarget", <<"invalid target version">>)
    ELSE
      LET sl == split_once(name, "/")
          pname == IF sl = None THEN name ELSE sl[1].l
          w == IF sl = None THEN None ELSE Some(sl[1].r)
      IN
        IF ~ValidPackageName(pname)
        THEN Err("InvalidPackageName", <<"name">>)
        ELSE Ok(TargetPackage(pname, RegistryPackage(None, version, None), w))

\* the world is parsed and validated but not stored
from_str_noworld(s) ==
  LET at == split_once(s, "@") IN
  IF at = None
  THEN Err("InvalidTarget", <<"expected target format">>)
  ELSE
    LET name == at[1].l
        version == at[1].r
    IN
    IF ~ValidVersionReq(version)
    THEN Err("InvalidTarget", <<"invalid target version">>)
    ELSE
      LET sl == split_once(name, "/") IN
      IF sl # None /\ ~validate_id(sl[1].r)
      THEN Err("InvalidWorldName", <<"invalid target world name">>)
      ELSE
        LET pname == IF sl = None THEN name ELSE sl[1].l IN
        IF ~ValidPackageName(pname)
        THEN Err("InvalidPackageName", <<"name">>)
        ELSE Ok(TargetPackage(pname, RegistryPackage(None, version, None), None))

\* impl FromStr for Target
from_str(s) ==
  LET at == split_once(s, "@") IN
  IF at = None
  THEN Err("InvalidTarget", <<"expected target format">>)
  ELSE
    LET name == at[1].l
        version == at[1].r
    IN
    IF ~ValidVersionReq(version)
    THEN Err("InvalidTarget", <<"invalid target version">>)
    ELSE
      LET sl == split_once(name, "/") IN
      IF sl # None /\ ~validate_id(sl[1].r)
      THEN Err("InvalidWorldName", <<"invalid target world name">>)
      ELSE
        LET pname == IF sl = None THEN name ELSE sl[1].l
            w == IF sl = None THEN None ELSE Some(sl[1].r)
        IN
        IF ~ValidPackageName(pname)
        THEN Err("InvalidPackageName", <<"name">>)
        ELSE Ok(TargetPackage(pname, RegistryPackage(None, version, None), w))

\* struct Entry of visit_map, after Entry::deserialize succeeded
Entries ==
  [package : {None, Some(<<"a", ":", "a">>), Some(<<"a">>)},
   version : {None, Some(<<"1">>)},
   world : {None, Some(<<"a">>), Some(<<"1">>)},
   registry : {None, Some(<<"a">>)},
   path : {None} \cup {Some(p) : p \in PathValues},
   dependencies : DepMaps]

ConflictingFields(a, b) == Err("ConflictingFields", <<a, b>>)

\* the version is looked up before the dependencies and the name
PackageArmVersionFirst(entry, package) ==
  IF entry.version = None
  THEN Err("MissingField", <<"version">>)
  ELSE IF DOMAIN entry.dependencies # {}
  THEN ConflictingFields("dependencies", "package")
  ELSE IF ~ValidPackageName(package)
  THEN Err("InvalidPackageName", <<"package">>)
  ELSE Ok(TargetPackage(package,
                        RegistryPackage(None, entry.version[1], entry.registry),
                        entry.world))

\* the registry alias is dropped
PackageArmNoRegistry(entry, package) ==
  IF DOMAIN entry.dependencies # {}
  THEN ConflictingFields("dependencies", "package")
  ELSE IF ~ValidPackageName(package)
  THEN Err("InvalidPackageName", <<"package">>)
  ELSE IF entry.version = None
  THEN Err("MissingField", <<"version">>)
  ELSE Ok(TargetPackage(package,
                        RegistryPackage(None, entry.version[1], None),
                        entry.world))

\* visit_map, arm (None, Some(package))
PackageArm(entry, package) ==
  IF DOMAIN entry.dependencies # {}
  THEN ConflictingFields("dependencies", "package")
  ELSE IF ~ValidPackageName(package)
  THEN Err("InvalidPackageName", <<"package">>)
  ELSE IF entry.version = None
  THEN Err("MissingField", <<"version">>)
  ELSE Ok(TargetPackage(package,
                        RegistryPackage(None, entry.version[1], entry.registry),
                        entry.world))

\* visit_map, arm (path, None)
LocalArm(entry, path) ==
  IF entry.version # None
  THEN ConflictingFields("version", "path")
  ELSE IF entry.registry # None
  THEN ConflictingFields("registry", "path")
  ELSE Ok(TargetLocal(path, entry.world, entry.dependencies))

\* the second arm matches any package: (path, _)
visit_map_path_wins(entry) ==
  IF entry.path = None /\ entry.package # None
  THEN PackageArm(entry, entry.package[1])
  ELSE LocalArm(entry, entry.path)

\* Visitor::visit_map, from the match on (entry.path, entry.package)
visit_map(entry) ==
  IF entry.path = None /\ entry.package # None
  THEN PackageArm(entry, entry.package[1])
  ELSE IF entry.package = None
  THEN LocalArm(entry, entry.path)
  ELSE ConflictingFields("path", "package")

StrNode(s) == [form |-> "str", s |-> s]

TableNode(e) == [form |-> "table", entry |-> e]

\* Target::deserialize: deserialize_any dispatches on the node's form
Deserialize(n) ==
  IF n.form = "str" THEN from_str(n.s) ELSE visit_map(n.entry)

(* ------------------------- ComponentSection ---------------------------- *)

\* impl Default for Bindings
BindingsDefault ==
  [format |-> TRUE, ownership |-> "Owning", derives |-> << >>,
   std_feature |-> FALSE, raw_strings |-> FALSE, skip |-> << >>,
   stubs |-> FALSE, export_prefix |-> None, with |-> EmptyMap,
   type_section_suffix |-> None,
   disable_run_ctors_once_workaround |-> FALSE,
   default_bindings_module |-> None, export_macro_name |-> None,
   pub_export_macro |-> FALSE, generate_unused_types |-> FALSE]

\* struct ComponentSection
ComponentSection(pk, t, a, d, r, b, px) ==
  [package |-> pk, target |-> t, adapter |-> a, dependencies |-> d,
   registries |-> r, bindings |-> b, proxy |-> px]

\* derived Default for ComponentSection
ComponentSectionDefault ==
  ComponentSection(None, TargetDefault, None, EmptyMap, EmptyMap,
                   BindingsDefault, FALSE)

\* derived Deserialize for ComponentSection (default, deny_unknown_fields):
\* a missing key takes its default, an unknown key or a bad target fails
from_value(doc) ==
  IF doc.unknown
  THEN Err("MalformedDocument", <<"unknown field">>)
  ELSE
    LET t == IF doc.target = None THEN Ok(TargetDefault)
             ELSE Deserialize(doc.target[1])
    IN
    IF ~t.ok THEN t
    ELSE Ok(ComponentSection(doc.package, t.value, doc.adapter,
                             doc.dependencies, doc.registries, doc.bindings,
                             doc.proxy))

(* ------------------------- ComponentMetadata --------------------------- *)

\* crate::last_modified_time: the manifest's mtime, or an error
last_modified_time(p) ==
  IF p.mtime_ok THEN Ok("mtime") ELSE Err("FilesystemError", <<"mtime">>)

\* from_package, the loops over dependencies.values_mut()
NormalizeDeps(dir, deps) ==
  [k \in DOMAIN deps |->
     IF deps[k].kind = "Local"
     THEN DepLocal(Join(dir, deps[k].path))
     ELSE deps[k]]

\* the adapter path is left as parsed
NormalizeSkipAdapter(dir, section) ==
  LET t == section.target IN
  ComponentSection(
    section.package,
    IF t.variant = "Local"
    THEN TargetLocal(IF t.path = None THEN None ELSE Some(Join(dir, t.path[1])),
                     t.world, NormalizeDeps(dir, t.dependencies))
    ELSE t,
    section.adapter,
    NormalizeDeps(dir, section.dependencies),
    section.registries, section.bindings, section.proxy)

\* from_package, "Make all paths stored in the metadata relative to the
\* manifest directory"
Normalize(dir, section) ==
  LET t == section.target IN
  ComponentSection(
    section.package,
    IF t.variant = "Local"
    THEN TargetLocal(IF t.path = None THEN None ELSE Some(Join(dir, t.path[1])),
                     t.world, NormalizeDeps(dir, t.dependencies))
    ELSE t,
    IF section.adapter = None THEN None
    ELSE Some(Join(dir, section.adapter[1])),
    NormalizeDeps(dir, section.dependencies),
    section.registries, section.bindings, section.proxy)

\* the presence flag is raised on both branches
SectionPresentAlways(p) == TRUE

\* from_package, section_present: whether metadata has a `component` key
SectionPresent(p) == p.component # None

\* ComponentMetadata::from_package
from_package(p) ==
  LET section == IF p.component # None THEN from_value(p.component[1])
                 ELSE Ok(ComponentSectionDefault)
      manifest_dir == parent(p.manifest_path)
      modified_at == last_modified_time(p)
  IN
  IF ~section.ok THEN section
  ELSE IF manifest_dir = None
  THEN Err("FilesystemError", <<"no parent directory">>)
  ELSE IF ~modified_at.ok THEN modified_at
  ELSE Ok([name |-> p.name, version |-> p.version,
           manifest_path |-> p.manifest_path,
           modified_at |-> modified_at.value,
           section |-> Normalize(manifest_dir[1], section.value),
           section_present |-> SectionPresent(p)])

\* Path::exists: something (a directory or a file) is at the path
exists(f, path) == \E e \in f : e.path = path

\* only a directory counts
is_dir(f, path) == \E e \in f : e.path = path /\ e.kind = "dir"

\* target_path, the probe of the default directory
Probe(f, path) == exists(f, path)

\* ComponentMetadata::target_path; probed records whether the filesystem
\* was consulted
target_path(m, f) ==
  LET t == m.section.target IN
  IF t.variant = "Local" /\ t.path # None
  THEN [result |-> Some(t.path[1]), probed |-> FALSE]
  ELSE IF t.variant = "Local"
  THEN LET path == Join(parent(m.manifest_path)[1], DEFAULT_WIT_DIR)
       IN [result |-> IF Probe(f, path) THEN Some(path) ELSE None,
           probed |-> TRUE]
  ELSE [result |-> None, probed |-> FALSE]

(* --------------------- specification: Target parsing ------------------- *)

Nodes == {StrNode(s) : s \in Strings} \cup {TableNode(e) : e \in Entries}

InitTarget ==
  /\ node \in Nodes
  /\ result = None
  /\ pkg = None
  /\ fs = {}
  /\ meta = None
  /\ call = None

\* Visitor::visit_str
VisitStr ==
  /\ result = None
  /\ node.form = "str"
  /\ result' = Some(from_str(node.s))
  /\ UNCHANGED <<node, pkg, fs, meta, call>>

\* Visitor::visit_map
VisitMap ==
  /\ result = None
  /\ node.form = "table"
  /\ result' = Some(visit_map(node.entry))
  /\ UNCHANGED <<node, pkg, fs, meta, call>>

NextTarget == VisitStr \/ VisitMap

SpecTarget == InitTarget /\ [][NextTarget]_vars

(* ------------------- specification: ComponentMetadata ------------------ *)

ManifestPaths ==
  {Path(TRUE, <<"p", "Cargo.toml">>), Path(FALSE, <<"p", "Cargo.toml">>),
   Path(FALSE, <<"Cargo.toml">>), Path(TRUE, << >>)}

\* the target key of the component table: a string or a table
MetaNodes ==
  {StrNode(<<"a", ":", "a", "@", "1">>),
   StrNode(<<"a", ":", "a", "/", "a", "@", "1">>),
   StrNode(<<"a", ":", "a">>)}
  \cup
  {TableNode(e) : e \in
     [package : {None, Some(<<"a", ":", "a">>)},
      version : {None, Some(<<"1">>)},
      world : {None, Some(<<"a">>)},
      registry : {None},
      path : {None} \cup {Some(p) : p \in PathValues},
      dependencies : {EmptyMap} \cup {[k \in {"a:a"} |-> v] : v \in DepValues}]}

\* the keys the normalization pass does not look at
Extras ==
  [package : {None, Some("a:a")},
   registries : {EmptyMap, [k \in {"reg"} |-> "url"]},
   bindings : {BindingsDefault, [BindingsDefault EXCEPT !.stubs = TRUE]},
   proxy : BOOLEAN]

Doc(t, a, d, x, u) ==
  [target |-> t, adapter |-> a, dependencies |-> d, package |-> x.package,
   registries |-> x.registries, bindings |-> x.bindings, proxy |-> x.proxy,
   unknown |-> u]

\* the value under the `component` key; unknown marks a key outside the schema
Docs ==
  {Doc(t, a, d, x, FALSE) :
     t \in {None} \cup {Some(n) : n \in MetaNodes},
     a \in {None} \cup {Some(p) : p \in PathValues},
     d \in DepMaps,
     x \in Extras}
  \cup
  {Doc(None, None, EmptyMap, x, TRUE) : x \in Extras}

\* cargo_metadata::Package, the fields from_package reads
Packages ==
  [name : {"crate"}, version : {"0.1.0"}, manifest_path : ManifestPaths,
   mtime_ok : BOOLEAN, component : {None} \cup {Some(d) : d \in Docs}]

\* where target_path looks when the target has no path
WitPath(p) == Join(parent(p.manifest_path)[1], DEFAULT_WIT_DIR)

Init ==
  /\ node = None
  /\ result = None
  /\ pkg \in Packages
  /\ fs = {}
  /\ meta = None
  /\ call = None

\* ComponentMetadata::from_package(&package)
FromPackage ==
  /\ meta = None
  /\ meta' = Some(from_package(pkg))
  /\ UNCHANGED <<node, result, pkg, fs, call>>

\* the environment creates a directory at <manifest_dir>/wit
Mkdir ==
  /\ parent(pkg.manifest_path) # None
  /\ fs = {}
  /\ fs' = {[path |-> WitPath(pkg), kind |-> "dir"]}
  /\ UNCHANGED <<node, result, pkg, meta, call>>

\* the environment creates a regular file at <manifest_dir>/wit
CreateFile ==
  /\ parent(pkg.manifest_path) # None
  /\ fs = {}
  /\ fs' = {[path |-> WitPath(pkg), kind |-> "file"]}
  /\ UNCHANGED <<node, result, pkg, meta, call>>

\* the environment removes what is at <manifest_dir>/wit
Remove ==
  /\ fs # {}
  /\ fs' = {}
  /\ UNCHANGED <<node, result, pkg, meta, call>>

\* a call of ComponentMetadata::target_path(&self)
TargetPath ==
  /\ meta # None
  /\ meta[1].ok
  /\ call' = Some([out |-> target_path(meta[1].value, fs), fsAt |-> fs])
  /\ UNCHANGED <<node, result, pkg, fs, meta>>

Next == FromPackage \/ Mkdir \/ CreateFile \/ Remove \/ TargetPath

Spec == Init /\ [][Next]_vars

(* ------------------------ properties: table form ----------------------- *)

IsTable == result # None /\ node.form = "table"

IsStr == result # None /\ node.form = "str"

Failed(r, k) == ~r.ok /\ r.kind = k

\* C1: a table with both `package` and `path` fails with the
\* ConflictingFields error for `path` and `package`, whatever version,
\* world, registry and dependencies are; no Target is produced.
C1_PathAndPackageConflict ==
  (IsTable /\ node.entry.package # None /\ node.entry.path # None)
    => result[1] = Err("ConflictingFields", <<"path", "package">>)

C1_Witness ==
  /\ IsTable
  /\ node.entry.package # None /\ node.entry.path # None
  /\ node.entry.version # None /\ node.entry.registry # None
  /\ DOMAIN node.entry.dependencies # {}
  /\ ~result[1].ok

\* C2 as stated: `package` set, `path` and `version` absent always fails
\* with MissingField for `version`, for every package, world, registry and
\* dependencies.
C2_AlwaysMissingVersion ==
  (IsTable /\ node.entry.package # None /\ node.entry.path = None
           /\ node.entry.version = None)
    => result[1] = Err("MissingField", <<"version">>)

\* C2 amended: such a table always fails; the error is ConflictingFields
\* (dependencies and package) when `dependencies` is non-empty, otherwise
\* InvalidPackageName when `package` is not a package name, and MissingField
\* for `version` only when neither holds.
C2_MissingVersionAfterOtherChecks ==
  (IsTable /\ node.entry.package # None /\ node.entry.path = None
           /\ node.entry.version = None)
    => LET e == node.entry
           r == result[1]
       IN /\ ~r.ok
          /\ DOMAIN e.dependencies # {}
               => r = Err("ConflictingFields", <<"dependencies", "package">>)
          /\ (DOMAIN e.dependencies = {} /\ ~ValidPackageName(e.package[1]))
               => Failed(r, "InvalidPackageName")
          /\ (DOMAIN e.dependencies = {} /\ ValidPackageName(e.package[1]))
               => r = Err("MissingField", <<"version">>)

C2_Witness ==
  /\ IsTable
  /\ node.entry.package # None /\ node.entry.path = None
  /\ node.entry.version = None
  /\ DOMAIN node.entry.dependencies # {}
  /\ Failed(result[1], "ConflictingFields")

\* C3: a successful table parse is Package exactly when `package` is
\* present and `path` absent (carrying the parsed name, version, registry,
\* world and no override name) and Local exactly when `package` is absent
\* (carrying path, world and dependencies unchanged); Package with
\* dependencies, and Local with version or registry, fail with
\* ConflictingFields, also when `path` is absent.
C3_VariantFollowsFields ==
  IsTable =>
    LET e == node.entry
        r == result[1]
    IN /\ r.ok =>
            /\ r.value.variant \in {"Package", "Local"}
            /\ r.value.variant = "Package"
                 <=> (e.package # None /\ e.path = None)
            /\ r.value.variant = "Local" <=> e.package = None
            /\ r.value.variant = "Package" =>
                 /\ r.value.name = e.package[1]
                 /\ ValidPackageName(r.value.name)
                 /\ r.value.package.name = None
                 /\ e.version # None
                 /\ r.value.package.version = e.version[1]
                 /\ r.value.package.registry = e.registry
                 /\ r.value.world = e.world
            /\ r.value.variant = "Local" =>
                 /\ r.value.path = e.path
                 /\ r.value.world = e.world
                 /\ r.value.dependencies = e.dependencies
                 /\ e.version = None /\ e.registry = None
       /\ (e.package # None /\ e.path = None /\ DOMAIN e.dependencies # {})
            => Failed(r, "ConflictingFields")
       /\ (e.package = None /\ (e.version # None \/ e.registry # None))
            => Failed(r, "ConflictingFields")

C3_Witness ==
  /\ IsTable
  /\ result[1].ok
  /\ result[1].value.variant = "Package"
  /\ node.entry.registry # None
  /\ node.entry.world # None

(* ----------------------- properties: string form ----------------------- *)

Count(s, c) == Cardinality({i \in 1..Len(s) : s[i] = c})

\* index of the first c in s (s contains one)
First(s, c) == CHOOSE i \in 1..Len(s) :
                 s[i] = c /\ \A j \in 1..Len(s) : s[j] = c => i <= j

\* index of the last c in s (s contains one)
Last(s, c) == CHOOSE i \in 1..Len(s) :
                s[i] = c /\ \A j \in 1..Len(s) : s[j] = c => j <= i

Before(s, i) == SubSeq(s, 1, i - 1)

After(s, i) == SubSeq(s, i + 1, Len(s))

\* C4 as stated: the input is split on the last `@`, so an input with more
\* than one `@` whose final segment is a version requirement has its
\* version accepted and fails, if at all, on the name portion.
C4_SplitsOnLastAt ==
  (IsStr /\ Count(node.s, "@") > 1
         /\ ValidVersionReq(After(node.s, Last(node.s, "@"))))
    => \/ result[1].ok
       \/ Failed(result[1], "InvalidPackageName")
       \/ Failed(result[1], "InvalidWorldName")

\* C4 amended: the input is split on the FIRST `@` (name portion to its
\* left, version requirement everything to its right) and the name portion
\* on the FIRST `/`; an input with more than one `@` therefore has a `@` in
\* its version text and always fails with InvalidTarget (invalid version),
\* whatever its final segment and its name portion are.
C4_SplitsOnFirstAt ==
  IsStr =>
    LET s == node.s
        r == result[1]
    IN /\ Count(s, "@") = 0
            => r = Err("InvalidTarget", <<"expected target format">>)
       /\ Count(s, "@") > 1
            => r = Err("InvalidTarget", <<"invalid target version">>)
       /\ Count(s, "@") > 0 =>
            LET nm == Before(s, First(s, "@"))
                ver == After(s, First(s, "@"))
            IN /\ ~ValidVersionReq(ver)
                    <=> r = Err("InvalidTarget", <<"invalid target version">>)
               /\ (ValidVersionReq(ver) /\ Count(nm, "/") > 0) =>
                    LET pn == Before(nm, First(nm, "/"))
                        w == After(nm, First(nm, "/"))
                    IN /\ ~validate_id(w) <=> Failed(r, "InvalidWorldName")
                       /\ (validate_id(w) /\ ~ValidPackageName(pn))
                            => Failed(r, "InvalidPackageName")
                       /\ r.ok => /\ r.value.name = pn
                                  /\ r.value.world = Some(w)
                                  /\ r.value.package.version = ver
               /\ (ValidVersionReq(ver) /\ Count(nm, "/") = 0) =>
                    /\ ~ValidPackageName(nm)
                         <=> Failed(r, "InvalidPackageName")
                    /\ r.ok => /\ r.value.name = nm
                               /\ r.value.world = None
                               /\ r.value.package.version = ver

C4_Witness ==
  /\ IsStr
  /\ Count(node.s, "@") > 1
  /\ ValidVersionReq(After(node.s, Last(node.s, "@")))
  /\ ValidPackageName(Before(node.s, First(node.s, "@")))
  /\ Failed(result[1], "InvalidTarget")

\* C5: for valid n, w, r the strings n@r and n/w@r parse to the Package
\* variant with name n, version r, world none resp. w, no registry and no
\* override name; the string form never yields Local; a malformed input
\* fails with the kind of its defect: no `@` or a bad version requirement
\* InvalidTarget, a bad world InvalidWorldName, a bad package name
\* InvalidPackageName.
C5_StringRoundTrip ==
  IsStr =>
    LET s == node.s
        r == result[1]
    IN /\ \A i \in 1..Len(s) :
            (s[i] = "@" /\ ValidPackageName(Before(s, i))
                        /\ ValidVersionReq(After(s, i)))
              => /\ r = Ok(TargetPackage(Before(s, i),
                                         RegistryPackage(None, After(s, i), None),
                                         None))
                 /\ world(r.value) = None
       /\ \A i \in 1..Len(s) : \A j \in 1..(i-1) :
            (s[i] = "@" /\ s[j] = "/"
               /\ ValidPackageName(Before(s, j))
               /\ validate_id(SubSeq(s, j + 1, i - 1))
               /\ ValidVersionReq(After(s, i)))
              => /\ r = Ok(TargetPackage(Before(s, j),
                                         RegistryPackage(None, After(s, i), None),
                                         Some(SubSeq(s, j + 1, i - 1))))
                 /\ world(r.value) = Some(SubSeq(s, j + 1, i - 1))
       /\ r.ok => /\ r.value.variant = "Package"
                  /\ r.value.package.name = None
                  /\ r.value.package.registry = None
       /\ ~r.ok => r.kind \in {"InvalidTarget", "InvalidWorldName",
                                "InvalidPackageName"}
       /\ Count(s, "@") = 0 => Failed(r, "InvalidTarget")
       /\ Count(s, "@") = 1 =>
            LET nm == Before(s, First(s, "@"))
                ver == After(s, First(s, "@"))
                hasWorld == Count(nm, "/") > 0
                pn == IF hasWorld THEN Before(nm, First(nm, "/")) ELSE nm
                w == IF hasWorld THEN After(nm, First(nm, "/")) ELSE << >>
            IN /\ ~ValidVersionReq(ver) => Failed(r, "InvalidTarget")
               /\ (ValidVersionReq(ver) /\ hasWorld /\ ~validate_id(w))
                    => Failed(r, "InvalidWorldName")
               /\ (ValidVersionReq(ver) /\ (hasWorld => validate_id(w))
                      /\ ~ValidPackageName(pn))
                    => Failed(r, "InvalidPackageName")

C5_Witness ==
  /\ IsStr
  /\ result[1].ok
  /\ result[1].value.world # None
  /\ Len(result[1].value.package.version) > 0

(* ------------------- properties: world name validation ----------------- *)

\* C10 as stated: in both syntaxes a successful parse has a world that is
\* none or a valid identifier.
C10_WorldValidInBothForms ==
  (result # None /\ result[1].ok)
    => \/ world(result[1].value) = None
       \/ validate_id(world(result[1].value)[1])

\* C10 amended: only the string shorthand validates the world name: a
\* successful from_str has a world that is none or a valid identifier, and
\* a string whose version is fine and whose world is not an identifier
\* fails with InvalidWorldName; the table form stores `world` as given,
\* without validation, so it accepts every world name.
C10_WorldValidInStringFormOnly ==
  /\ (IsStr /\ result[1].ok)
       => \/ world(result[1].value) = None
          \/ validate_id(world(result[1].value)[1])
  /\ (IsStr /\ Count(node.s, "@") = 1) =>
       LET nm == Before(node.s, First(node.s, "@"))
           ver == After(node.s, First(node.s, "@"))
       IN (ValidVersionReq(ver) /\ Count(nm, "/") > 0
             /\ ~validate_id(After(nm, First(nm, "/"))))
            => Failed(result[1], "InvalidWorldName")
  /\ (IsTable /\ result[1].ok)
       => world(result[1].value) = node.entry.world

C10_Witness ==
  /\ IsTable
  /\ result[1].ok
  /\ node.entry.package # None
  /\ node.entry.world # None
  /\ ~validate_id(node.entry.world[1])

(* ------------------- properties: ComponentMetadata --------------------- *)

Built == meta # None /\ meta[1].ok

\* the section as deserialized, before the normalization pass
Parsed ==
  IF pkg.component = None THEN ComponentSectionDefault
  ELSE from_value(pkg.component[1]).value

Dir == parent(pkg.manifest_path)[1]

\* <dir>/<p> as Path::join forms it: dir's components followed by p's,
\* unless p has a root of its own
Under(dir, p) ==
  IF p.abs THEN p ELSE [abs |-> dir.abs, comps |-> dir.comps \o p.comps]

DepsUnder(dir, before, after) ==
  /\ DOMAIN after = DOMAIN before
  /\ \A k \in DOMAIN before :
       IF before[k].kind = "Local"
       THEN after[k] = [kind |-> "Local", path |-> Under(dir, before[k].path)]
       ELSE after[k] = before[k]

\* C6: after construction with manifest directory D, the Local target
\* path, every Local dependency of the Local target, every Local
\* dependency of the section and the adapter each equal D joined once with
\* the parsed value; Package dependencies, a Package target, worlds, map
\* keys, package, registries, bindings and proxy are as parsed.
C6_PathsJoinedOnce ==
  Built =>
    LET s == meta[1].value.section
        p == Parsed
    IN /\ s.target.variant = p.target.variant
       /\ s.target.world = p.target.world
       /\ p.target.variant = "Package" => s.target = p.target
       /\ p.target.variant = "Local" =>
            /\ p.target.path = None => s.target.path = None
            /\ p.target.path # None
                 => s.target.path = Some(Under(Dir, p.target.path[1]))
            /\ DepsUnder(Dir, p.target.dependencies, s.target.dependencies)
       /\ DepsUnder(Dir, p.dependencies, s.dependencies)
       /\ p.adapter = None => s.adapter = None
       /\ p.adapter # None => s.adapter = Some(Under(Dir, p.adapter[1]))
       /\ s.package = p.package
       /\ s.registries = p.registries
       /\ s.bindings = p.bindings
       /\ s.proxy = p.proxy

C6_Witness ==
  /\ Built
  /\ Dir = Path(FALSE, <<"p">>)
  /\ Parsed.target.variant = "Local"
  /\ Parsed.target.path = Some(RelX)
  /\ meta[1].value.section.target.path = Some(Path(FALSE, <<"p", "x">>))
  /\ Parsed.adapter = Some(RelX)
  /\ \E k \in DOMAIN Parsed.dependencies : Parsed.dependencies[k].kind = "Local"
  /\ \E k \in DOMAIN Parsed.target.dependencies :
       Parsed.target.dependencies[k].kind = "Local"

HasRelativePath(s) ==
  \/ s.target.variant = "Local" /\ s.target.path # None /\ ~s.target.path[1].abs
  \/ s.adapter # None /\ ~s.adapter[1].abs

\* a manifest-relative target path or adapter p became D/p
RelativeBecomesUnderDir ==
  LET s == meta[1].value.section
      p == Parsed
  IN /\ (p.target.variant = "Local" /\ p.target.path # None
            /\ ~p.target.path[1].abs)
          => s.target.path[1] =
               [abs |-> Dir.abs, comps |-> Dir.comps \o p.target.path[1].comps]
     /\ (p.adapter # None /\ ~p.adapter[1].abs)
          => s.adapter[1] =
               [abs |-> Dir.abs, comps |-> Dir.comps \o p.adapter[1].comps]

C8_AbsentSectionIsDefault ==
  meta # None =>
    /\ (pkg.component = None /\ parent(pkg.manifest_path) # None
           /\ pkg.mtime_ok)
         => /\ meta[1].ok
            /\ meta[1].value.section_present = FALSE
            /\ meta[1].value.section =
                 [package |-> None,
                  target |-> [variant |-> "Local", path |-> None,
                              world |-> None, dependencies |-> EmptyMap],
                  adapter |-> None, dependencies |-> EmptyMap,
                  registries |-> EmptyMap, bindings |-> BindingsDefault,
                  proxy |-> FALSE]
    /\ meta[1].ok
         => (meta[1].value.section_present = TRUE <=> pkg.component # None)

C8_Witness ==
  /\ Built
  /\ pkg.component = None
  /\ meta[1].value.section_present = FALSE

(* ----------------------- properties: target_path ----------------------- *)

\* <manifest_dir>/wit of the constructed metadata
WitDir ==
  LET d == parent(meta[1].value.manifest_path)[1]
  IN [abs |-> d.abs, comps |-> d.comps \o <<"wit">>]

DirAt(f, path) == \E e \in f : e.path = path /\ e.kind = "dir"

AnythingAt(f, path) == \E e \in f : e.path = path

\* the answers that do not depend on the filesystem
AnswerWithoutProbe ==
  LET t == meta[1].value.section.target
  IN /\ (t.variant = "Local" /\ t.path # None)
          => /\ call[1].out.result = t.path
             /\ ~call[1].out.probed
     /\ t.variant = "Package" => call[1].out.result = None

\* C7 as stated: for a Local target without a path, target_path returns
\* <manifest_dir>/wit if and only if a DIRECTORY is there at call time.
C7_DefaultIffDirectory ==
  call # None =>
    LET t == meta[1].value.section.target
    IN /\ AnswerWithoutProbe
       /\ (t.variant = "Local" /\ t.path = None)
            => /\ DirAt(call[1].fsAt, WitDir)
                    => call[1].out.result = Some(WitDir)
               /\ ~DirAt(call[1].fsAt, WitDir)
                    => call[1].out.result = None

\* every call answers from the metadata and the filesystem of that call
AnswerFromCurrentFs ==
  call # None =>
    LET t == meta[1].value.section.target
    IN /\ AnswerWithoutProbe
       /\ (t.variant = "Local" /\ t.path = None)
            => /\ AnythingAt(call[1].fsAt, WitDir)
                    => call[1].out.result = Some(WitDir)
               /\ ~AnythingAt(call[1].fsAt, WitDir)
                    => call[1].out.result = None

\* C7 amended: for a Local target with a path target_path returns that
\* path without probing; for a Package target none; for a Local target
\* without a path <manifest_dir>/wit if and only if ANYTHING exists there
\* at call time (Path::exists: a directory or a regular file), none
\* otherwise; the probe is not cached, and no call or filesystem change
\* modifies the metadata.
C7_DefaultIffExists ==
  /\ []AnswerFromCurrentFs
  /\ [][meta # None => meta' = meta]_vars
  /\ [][(call' # call) => call'[1].fsAt = fs]_vars

C7_Witness ==
  /\ call # None
  /\ meta[1].value.section.target.variant = "Local"
  /\ meta[1].value.section.target.path = None
  /\ \E e \in call[1].fsAt : e.kind = "file"
  /\ call[1].out.result = Some(WitDir)
  /\ fs = {}

====
